---- MODULE Spec2Model ----
(***************************************************************************)
(* A model of the content generator's path sandbox (project_registry.py),  *)
(* its validation runner (validators.py) and the path-taking tools         *)
(* (tools.py).                                                             *)
(*                                                                         *)
(* A path is the sequence of its components below "/": <<>> is "/",        *)
(* <<"study", "learning-dsa">> is /study/learning-dsa.  A relative path is  *)
(* written with a first component ".": the working directory is "/", so    *)
(* that <<".", "study">> is the relative path study, which names /study.   *)
(***************************************************************************)
EXTENDS Naturals, Sequences, FiniteSets, TLC

(* ------------------------------ bounds -------------------------------- *)

\* Longest path handed to validate_path directly.
MaxPathLen == 4

\* Longest relative_path handed to a tool.
MaxRelLen == 3

\* Longest path below a project root handed to validate_file directly.
MaxFileRelLen == 1

\* Most tool calls of one agent run.
MaxToolCalls == 5

\* Most calls of write_generated_file in one session.
MaxWrites == 2

\* Most files of the project directory that is analysed.
MaxFiles == 4

\* Most _register calls after the import of domains.
MaxRegisters == 2

(* --------------------------- the environment -------------------------- *)

\* models.py: the members of the TargetProject enum (their values).
TargetProject ==
    {"learning-dsa", "learning-asyncio", "learning-litestar", "learning-fastapi"}

\* The values CONTENT_GENERATOR_STUDY_BASE takes: the directory /study
\* itself, /alias, a symbolic link to it, or the relative path study.
StudyBases == {<<"study">>, <<"alias">>, <<".", "study">>}

\* The symbolic links of the filesystem, link |-> target: the alias of the
\* study directory, a link inside a project that leaves it, and a link
\* outside the projects that enters one.
Symlinks ==
    (<<"alias">> :> <<"study">>)
    @@ (<<"study", "learning-dsa", "lnk">> :> <<"etc">>)
    @@ (<<"etc", "lnk">> :> <<"study", "learning-dsa", "src">>)

\* The component names paths are built from.
Names ==
    {"study", "alias", "learning-dsa", "learning-asyncio",
     "src", "lnk", "etc", "..", "."}

\* Every path of at most n components.
PathsUpTo(n) == UNION {[1..k -> Names] : k \in 0..n}

\* The project_name strings a tool is called with: the registered ones and
\* one that is no member of TargetProject.
ProjectNames == TargetProject \cup {"learning-rust"}

\* The relative_path strings a tool is called with, [abs, parts]: abs is
\* TRUE for a string that starts with "/".
RelNames == {"src", "lnk", "etc", "learning-asyncio", ".."}

RelPathsUpTo(n) ==
    [abs : BOOLEAN, parts : UNION {[1..k -> RelNames] : k \in 0..n}]

\* The relative paths a session's writes are made with: the project root
\* itself, files below it, a way out through "..", a way into a sibling
\* project, a symbolic link out of the sandbox, and an absolute path.
WritePaths ==
    {[abs |-> FALSE, parts |-> <<>>],
     [abs |-> FALSE, parts |-> <<"src">>],
     [abs |-> FALSE, parts |-> <<"src", "src">>],
     [abs |-> FALSE, parts |-> <<"..">>],
     [abs |-> FALSE, parts |-> <<"..", "learning-asyncio">>],
     [abs |-> FALSE, parts |-> <<"..", "learning-asyncio", "src">>],
     [abs |-> FALSE, parts |-> <<"lnk">>],
     [abs |-> TRUE, parts |-> <<"etc">>]}

\* The file contents write_generated_file is called with.
Contents == {"", "# hello world"}

\* The directories that exist when the program starts: those the symbolic
\* links lie in.  The other project roots need not exist.
InitDirs == {<<>>, <<"study">>, <<"etc">>, <<"study", "learning-dsa">>}

\* What a check subprocess leaves on stdout + stderr.
RawOutputs == {"", "msg\n"}

(* ------------------------------- state -------------------------------- *)

VARIABLES
    STUDY_BASE,     \* project_registry._STUDY_BASE
    PROJECT_PATHS,  \* project_registry.PROJECT_PATHS
    ALLOWED_ROOTS,  \* project_registry.ALLOWED_ROOTS
    pc,             \* "idle", "check" (about to run a check), "wait" (in
                    \* subprocess.run, the child alive), "done"
    op,             \* the operation called ("none" before the call)
    proj,           \* its project_name argument ("-" when it has none)
    arg,            \* the path it works on (file_path)
    cwd,            \* the working directory of its checks
    todo,           \* the checks the call has still to run, in order
    running,        \* the checks whose subprocess is alive
    results,        \* what _run_tool returned, one record per finished check
    log,            \* what the call has done so far, in order
    ret,            \* how it ended: [kind, msg, val]
    vres,           \* the ValidationResult validate_file returned
    text,           \* the string a tool returned
    files,          \* the files written: path |-> content
    dirs,           \* the directories that exist
    state,          \* tool_context.state
    ncalls,         \* the tool calls that have returned or raised before
    tree,           \* the files of the project directory that is analysed
    _REGISTRY,      \* domains._REGISTRY: domain name |-> config
    registered,     \* the configs handed to _register so far, in order
    answer,         \* the last call of an analyzer or of the domain registry
    phase,          \* root_agent: "idle", "running", "raised" (a tool raised
                    \* into google.adk), "finished"
    agent,          \* the index in sub_agents of the agent that runs (0: none)
    runs,           \* how often each agent has been run
    calls,          \* the tool calls of the agent that runs: [tool, out]
    session         \* the keys of the session state the agents have written

registry == <<STUDY_BASE, PROJECT_PATHS, ALLOWED_ROOTS>>

call == <<pc, op, proj, arg, cwd, todo, running, results, log, ret, vres, text>>

pipeline == <<phase, agent, runs, calls, session>>

\* What a call of a tool or of validate_file leaves alone, and what a run
\* of the agents leaves alone.
library == <<tree, _REGISTRY, registered, answer>>
elsewhere == <<pipeline, ncalls, library>>
beside == <<registry, call, files, dirs, state, ncalls, library>>

\* What a call of an analyzer or of the domain registry leaves alone.
program == <<registry, call, files, dirs, state, ncalls, pipeline>>

vars == <<program, library>>

NoRet == [kind |-> "none", msg |-> "", val |-> <<>>]

NoResult ==
    [passed |-> FALSE, ruff_format |-> "", ruff_lint |-> "", mypy |-> "",
     pytest |-> "", set |-> FALSE]

NoText == <<>>

NoState == [last_written_file |-> <<>>, last_written_project |-> "-"]

(* ----------------------- pathlib / os.path -------------------------- *)

\* pathlib's parent: "/" is its own parent.
parent(p) == IF p = <<>> THEN <<>> ELSE SubSeq(p, 1, Len(p) - 1)

\* PurePath.parents: every proper ancestor of p.
parents(p) == {SubSeq(p, 1, k) : k \in 0..(Len(p) - 1)}

\* posixpath._joinrealpath: path is resolved so far, rest is still to do.
\* "." is dropped, ".." steps to the parent of the resolved path, a
\* symbolic link is replaced by its (absolute) target, which is resolved
\* in turn.
RECURSIVE joinrealpath(_, _)
joinrealpath(path, rest) ==
    IF rest = <<>> THEN path
    ELSE LET name == Head(rest)
             more == Tail(rest)
             newpath == Append(path, name)
         IN  IF name = "." THEN joinrealpath(path, more)
             ELSE IF name = ".." THEN joinrealpath(parent(path), more)
             ELSE IF newpath \in DOMAIN Symlinks
                  THEN joinrealpath(<<>>, Symlinks[newpath] \o more)
             ELSE joinrealpath(newpath, more)

\* Path.resolve() of an absolute path.
resolve(path) == joinrealpath(<<>>, path)

\* PurePath.is_relative_to: a comparison of components, nothing is read
\* from the filesystem.
is_relative_to(p, other) == other = p \/ other \in parents(p)

(* --------------------------- project_registry ------------------------- *)

\* A plausible slip: the containment check on the path as given.
validate_path_literal(path) ==
    IF \E root \in ALLOWED_ROOTS : is_relative_to(path, root)
    THEN [kind |-> "ok", msg |-> "", val |-> path]
    ELSE [kind |-> "ValueError", msg |-> "not within any allowed", val |-> path]

\* validate_path: the resolved path, or ValueError.
validate_path(path) ==
    LET resolved == resolve(path)
    IN  IF \E root \in ALLOWED_ROOTS : is_relative_to(resolved, root)
        THEN [kind |-> "ok", msg |-> "", val |-> resolved]
        ELSE [kind |-> "ValueError", msg |-> "not within any allowed",
              val |-> resolved]

(* ------------------------ content_generator_agent --------------------- *)

\* root_agent.sub_agents, in order.
sub_agents ==
    <<"template_analyzer", "content_planner", "code_generator", "validator">>

\* The tools of each agent.
tools ==
    [template_analyzer |->
         {"analyze_target_project", "get_existing_content", "read_template",
          "read_progression_plan"},
     content_planner |-> {"read_source_reference"},
     code_generator |-> {"write_generated_file"},
     validator |->
         {"run_ruff_format", "run_ruff_check", "run_mypy_check",
          "run_pytest_doctest", "write_generated_file",
          "validate_generated_content"}]

\* A plausible slip: content_planner saves its plan under another key than
\* the one code_generator reads.
output_keyRenamed ==
    [template_analyzer |-> "template_analysis",
     content_planner |-> "plan",
     code_generator |-> "generated_code_summary",
     validator |-> "-"]

\* The output_key of each agent ("-": it has none).
output_key ==
    [template_analyzer |-> "template_analysis",
     content_planner |-> "lesson_plan",
     code_generator |-> "generated_code_summary",
     validator |-> "-"]

\* The session keys the instruction of each agent reads as {key}.
placeholders ==
    [template_analyzer |-> {},
     content_planner |-> {"template_analysis"},
     code_generator |-> {"lesson_plan"},
     validator |-> {"generated_code_summary"}]

\* "Maximum 3 repair cycles", of the validator's instruction.
MaxRepairCycles == 3

(* ------------------------------ actions ------------------------------- *)

\* Module load: the registry is built from the study base.
InitRegistry ==
    /\ STUDY_BASE \in StudyBases
    /\ PROJECT_PATHS = [p \in TargetProject |-> Append(STUDY_BASE, p)]
    /\ ALLOWED_ROOTS = {Append(STUDY_BASE, p) : p \in TargetProject}

\* No call made yet.
InitCall ==
    /\ pc = "idle"
    /\ op = "none"
    /\ proj = "-"
    /\ cwd = <<>>
    /\ todo = <<>>
    /\ running = {}
    /\ results = <<>>
    /\ log = <<>>
    /\ ret = NoRet
    /\ vres = NoResult
    /\ text = NoText
    /\ files = <<>>
    /\ dirs = InitDirs
    /\ state = NoState
    /\ ncalls = 0

\* root_agent has not been run.
InitPipeline ==
    /\ phase = "idle"
    /\ agent = 0
    /\ runs = [a \in DOMAIN tools |-> 0]
    /\ calls = <<>>
    /\ session = {}

\* DomainConfig(name, project, pedagogy): the fields the registry is asked
\* about.
DomainConfig(name, project, pedagogy) ==
    [name |-> name, project |-> project, pedagogy |-> pedagogy]

\* The four _register calls that run when domains is imported, in order.
Registered ==
    <<DomainConfig("dsa", "learning-dsa", "concept_first"),
      DomainConfig("asyncio", "learning-asyncio", "concept_first"),
      DomainConfig("litestar", "learning-litestar", "integration_first"),
      DomainConfig("fastapi", "learning-fastapi", "application_first")>>

\* No analyzer and no registry function has been called.
NoAnswer == [op |-> "none", arg |-> "-", kind |-> "none", val |-> <<>>]

\* domains has been imported, and the project directory is empty.
InitLibrary ==
    /\ tree = {}
    /\ _REGISTRY = [n \in {Registered[i].name : i \in 1..Len(Registered)} |->
                      CHOOSE c \in {Registered[i] : i \in 1..Len(Registered)} :
                          c.name = n]
    /\ registered = Registered
    /\ answer = NoAnswer

Init ==
    /\ InitRegistry
    /\ InitCall
    /\ InitPipeline
    /\ InitLibrary
    /\ arg = <<>>

\* The sandbox alone: the path handed to validate_path is drawn from every
\* path of the bound.
InitPath ==
    /\ InitRegistry
    /\ InitCall
    /\ InitPipeline
    /\ InitLibrary
    /\ arg \in PathsUpTo(MaxPathLen)

\* The call validate_path(arg).
CallValidatePath ==
    /\ pc = "idle"
    /\ pc' = "done"
    /\ op' = "validate_path"
    /\ ret' = validate_path(arg)
    /\ UNCHANGED <<registry, elsewhere, proj, arg, cwd, todo, running, results, log,
                   vres, text, files, dirs, state>>

NextPath == CallValidatePath

SpecPath == InitPath /\ [][NextPath]_vars

(* ------------------------------ validators ---------------------------- *)

\* A plausible slip: the lint call placed before the format call.
ChecksLintFirst == <<"ruff_lint", "ruff_format", "mypy", "pytest">>

\* The checks of validate_file, in the order of its four calls.
Checks == <<"ruff_format", "ruff_lint", "mypy", "pytest">>

\* One entry of the log: what was done, and for which check ("-": none).
Ev(e, c) == [ev |-> e, check |-> c]

\* The log entries that touch a file, a directory or a process.
Effects == {"stat", "read", "mkdir", "write", "spawn"}

\* An optional project_dir.
None == [given |-> FALSE, path |-> <<>>]
Some(path) == [given |-> TRUE, path |-> path]

\* str.strip() of the captured output.
strip(raw) == IF raw = "msg\n" THEN "msg" ELSE raw

\* The ways subprocess.run ends: [exc, why, returncode, raw].  The child
\* is never started (Popen raises), or it is started and exits, or it is
\* started and killed at the timeout.
Completed(code, raw) ==
    [exc |-> "none", why |-> IF code = 0 THEN "exit0" ELSE "nonzero",
     returncode |-> code, raw |-> raw]
TimedOut ==
    [exc |-> "TimeoutExpired", why |-> "timeout", returncode |-> 1, raw |-> ""]
NotStarted(exc, why) ==
    [exc |-> exc, why |-> why, returncode |-> 1, raw |-> ""]

\* Popen raises: the executable is missing, the working directory is
\* missing, or the executable or directory may not be used.
StartFailures ==
    {NotStarted("FileNotFoundError", "no_exe"),
     NotStarted("FileNotFoundError", "no_cwd"),
     NotStarted("PermissionError", "denied")}

\* The child ran: it exited with a code and an output, or was killed.
Endings ==
    {Completed(code, raw) : code \in {0, 1}, raw \in RawOutputs}
    \cup {TimedOut}

\* The exceptions _run_tool catches.
Caught == {"none", "TimeoutExpired", "FileNotFoundError"}

\* _run_tool: the (passed, output) pair for an ending it handles.
\* how and raw record the ending itself, for the claims.
run_tool(c, o) ==
    IF o.exc = "TimeoutExpired"
    THEN [check |-> c, ok |-> FALSE, out |-> "Command timed out",
          how |-> o.why, raw |-> o.raw]
    ELSE IF o.exc = "FileNotFoundError"
    THEN [check |-> c, ok |-> FALSE, out |-> "Command not found",
          how |-> o.why, raw |-> o.raw]
    ELSE [check |-> c, ok |-> o.returncode = 0, out |-> strip(o.raw),
          how |-> o.why, raw |-> o.raw]

\* A plausible slip: any() for all().
any(rs) == \E i \in 1..Len(rs) : rs[i].ok

\* all([...]) over the passed flags.
all(rs) == \A i \in 1..Len(rs) : rs[i].ok

\* A plausible slip: the type-check and test outputs in each other's field.
ValidationResultSwapped(rs) ==
    [passed |-> all(rs), ruff_format |-> rs[1].out, ruff_lint |-> rs[2].out,
     mypy |-> rs[4].out, pytest |-> rs[3].out, set |-> TRUE]

\* The ValidationResult validate_file builds from its four pairs.
ValidationResult(rs) ==
    [passed |-> all(rs), ruff_format |-> rs[1].out, ruff_lint |-> rs[2].out,
     mypy |-> rs[3].out, pytest |-> rs[4].out, set |-> TRUE]

\* The names of the single-check tools of tools.py.
ToolOf ==
    [ruff_format |-> "run_ruff_format", ruff_lint |-> "run_ruff_check",
     mypy |-> "run_mypy_check", pytest |-> "run_pytest_doctest"]

Ok == [kind |-> "ok", msg |-> "", val |-> <<>>]

\* validate_file(file_path, project_dir=project_dir) up to its first check.
validate_file(file_path, project_dir) ==
    LET v == validate_path(file_path)
    IN  /\ pc = "idle"
        /\ op' = "validate_file"
        /\ arg' = file_path
        /\ log' = <<Ev("validate_path", "-")>>
        /\ IF v.kind = "ok"
           THEN /\ pc' = "check"
                /\ cwd' = IF project_dir.given THEN project_dir.path
                          ELSE parent(file_path)
                /\ todo' = Checks
                /\ ret' = ret
           ELSE /\ pc' = "done"
                /\ ret' = v
                /\ UNCHANGED <<cwd, todo>>
        /\ UNCHANGED <<registry, elsewhere, proj, running, results, vres, text, files, dirs,
                       state>>

\* The sections of the FAIL report of validate_generated_content, in the
\* order of its list.
sections(result) ==
    << <<"RUFF FORMAT", result.ruff_format>>, <<"RUFF LINT", result.ruff_lint>>,
       <<"MYPY", result.mypy>>, <<"PYTEST", result.pytest>> >>

\* What validate_generated_content returns for a ValidationResult: PASS,
\* or FAIL with the sections whose output is not empty, or, when every
\* output is empty, FAIL with str(result).
report(result) ==
    LET NonEmpty(sec) == sec[2] # ""
        errors == SelectSeq(sections(result), NonEmpty)
    IN  IF result.passed
        THEN [status |-> "PASS", errors |-> <<>>, str |-> FALSE]
        ELSE IF errors # <<>>
        THEN [status |-> "FAIL", errors |-> errors, str |-> FALSE]
        ELSE [status |-> "FAIL", errors |-> <<>>, str |-> TRUE]

\* The string of a report, piece by piece: "PASS: All validation checks
\* passed.", or "FAIL:" and its sections, or "FAIL:" and str(result).
ReportText(rep) ==
    IF rep.status = "PASS" THEN <<"PASS", "All validation checks passed.">>
    ELSE IF rep.str THEN <<"FAIL", "str(result)">>
    ELSE <<"FAIL">> \o rep.errors

\* What follows a pair r returned by _run_tool: the next check, or the
\* return of the call (a ValidationResult from validate_file, a PASS/FAIL
\* string from a single-check tool, the report from
\* validate_generated_content).
AfterRunTool(r) ==
    LET rs == Append(results, r)
    IN  /\ results' = rs
        /\ todo' = Tail(todo)
        /\ IF Len(todo) > 1
           THEN /\ pc' = "check"
                /\ UNCHANGED <<ret, vres, text>>
           ELSE /\ pc' = "done"
                /\ ret' = Ok
                /\ vres' = IF op \in {"validate_file",
                                       "validate_generated_content"}
                           THEN ValidationResult(rs)
                           ELSE vres
                /\ text' = IF op = "validate_file" THEN text
                           ELSE IF op = "validate_generated_content"
                           THEN ReportText(report(ValidationResult(rs)))
                           ELSE <<IF r.ok THEN "PASS" ELSE "FAIL", r.out>>

\* _run_tool calls subprocess.run and the child starts; run blocks.
SpawnCheck ==
    /\ pc = "check"
    /\ pc' = "wait"
    /\ running' = running \cup {Head(todo)}
    /\ log' = log \o <<Ev("run_tool", Head(todo)), Ev("spawn", Head(todo))>>
    /\ UNCHANGED <<registry, elsewhere, op, proj, arg, cwd, todo, results, ret, vres,
                   text, files, dirs, state>>

\* _run_tool calls subprocess.run and Popen raises o.exc: _run_tool turns
\* the exceptions it catches into a pair, any other leaves _run_tool and
\* the call.
FailToStart(o) ==
    /\ pc = "check"
    /\ log' = Append(log, Ev("run_tool", Head(todo)))
    /\ IF o.exc \in Caught
       THEN AfterRunTool(run_tool(Head(todo), o))
       ELSE /\ pc' = "done"
            /\ ret' = [kind |-> o.exc, msg |-> "", val |-> <<>>]
            /\ UNCHANGED <<todo, results, vres, text>>
    /\ UNCHANGED <<registry, elsewhere, op, proj, arg, cwd, running, files, dirs, state>>

\* The child exits, or the timeout expires and run kills and reaps it;
\* subprocess.run returns or raises TimeoutExpired.
FinishCheck(o) ==
    /\ pc = "wait"
    /\ running' = running \ {Head(todo)}
    /\ log' = Append(log, Ev("reap", Head(todo)))
    /\ AfterRunTool(run_tool(Head(todo), o))
    /\ UNCHANGED <<registry, elsewhere, op, proj, arg, cwd, files, dirs, state>>

(* -------------------------------- tools ------------------------------- *)

\* project_path / relative_path: an absolute right side replaces the left.
Join(base, rel) == IF rel.abs THEN rel.parts ELSE base \o rel.parts

get_project_path(project) == PROJECT_PATHS[project]

\* A plausible slip: the head without its validate_path call.
ToolHeadUnchecked(project_name, relative_path) ==
    IF project_name \notin TargetProject
    THEN [ret |-> [kind |-> "ValueError", msg |-> "not a valid TargetProject",
                   val |-> <<>>],
          arg |-> <<>>, root |-> <<>>, log |-> <<>>]
    ELSE LET project_path == get_project_path(project_name)
             file_path == Join(project_path, relative_path)
         IN  [ret |-> [kind |-> "ok", msg |-> "", val |-> file_path],
              arg |-> file_path, root |-> project_path,
              log |-> <<Ev("get_project_path", "-")>>]

\* A plausible slip: the root looked up leniently, with the directory of
\* that name below the study base for a name that is no TargetProject.
ToolHeadLenient(project_name, relative_path) ==
    LET project_path == IF project_name \in TargetProject
                        THEN PROJECT_PATHS[project_name]
                        ELSE Append(STUDY_BASE, project_name)
        file_path == Join(project_path, relative_path)
    IN  [ret |-> validate_path(file_path), arg |-> file_path,
         root |-> project_path,
         log |-> <<Ev("get_project_path", "-"), Ev("validate_path", "-")>>]

\* The head every path-taking tool shares: TargetProject(project_name),
\* get_project_path, the join and validate_path.  [ret, arg, root, log].
ToolHead(project_name, relative_path) ==
    IF project_name \notin TargetProject
    THEN [ret |-> [kind |-> "ValueError", msg |-> "not a valid TargetProject",
                   val |-> <<>>],
          arg |-> <<>>, root |-> <<>>, log |-> <<>>]
    ELSE LET project_path == get_project_path(project_name)
             file_path == Join(project_path, relative_path)
         IN  [ret |-> validate_path(file_path), arg |-> file_path,
              root |-> project_path,
              log |-> <<Ev("get_project_path", "-"), Ev("validate_path", "-")>>]

\* tools.run_ruff_format, run_ruff_check, run_mypy_check and
\* run_pytest_doctest, up to the check.
run_check_tool(c, project_name, relative_path) ==
    LET head == ToolHead(project_name, relative_path)
    IN  /\ pc = "idle"
        /\ op' = ToolOf[c]
        /\ proj' = project_name
        /\ arg' = head.arg
        /\ log' = head.log
        /\ IF head.ret.kind = "ok"
           THEN /\ pc' = "check"
                /\ cwd' = head.root
                /\ todo' = <<c>>
                /\ ret' = ret
           ELSE /\ pc' = "done"
                /\ ret' = head.ret
                /\ UNCHANGED <<cwd, todo>>
        /\ UNCHANGED <<registry, elsewhere, running, results, vres, text, files, dirs, state>>

\* read_source_reference, with analyzers.read_source_file: exists says
\* whether file_path.exists().
read_source_reference(project_name, relative_path, exists) ==
    LET head == ToolHead(project_name, relative_path)
    IN  /\ pc = "idle"
        /\ pc' = "done"
        /\ op' = "read_source_reference"
        /\ proj' = project_name
        /\ arg' = head.arg
        /\ IF head.ret.kind # "ok"
           THEN /\ ret' = head.ret
                /\ log' = head.log
                /\ text' = text
           ELSE IF ~exists
           THEN /\ ret' = [kind |-> "FileNotFoundError", msg |-> "File not found",
                           val |-> <<>>]
                /\ log' = Append(head.log, Ev("stat", "-"))
                /\ text' = text
           ELSE /\ ret' = Ok
                /\ log' = head.log \o <<Ev("stat", "-"), Ev("read", "-")>>
                /\ text' = <<"contents">>
        /\ UNCHANGED <<registry, elsewhere, cwd, todo, running, results, vres, files, dirs,
                       state>>

\* str(path) of an absolute path: a separator before every component, and
\* the separator alone for the root.
str(path) ==
    IF path = <<>> THEN <<"/">>
    ELSE [i \in 1..(2 * Len(path)) |->
            IF i % 2 = 1 THEN "/" ELSE path[i \div 2]]

\* A plausible slip: the directory written into is recorded, not the file.
last_writtenParent(validated_path, project_name) ==
    [last_written_file |-> str(parent(validated_path)),
     last_written_project |-> project_name]

\* The two session keys write_generated_file sets.
last_written(validated_path, project_name) ==
    [last_written_file |-> str(validated_path),
     last_written_project |-> project_name]

\* parent.mkdir(parents=True, exist_ok=True) raises when the parent or one
\* of its ancestors is a regular file; it may also raise for a reason the
\* model does not hold (permissions, a read-only filesystem).
mkdir_raises(path, fs) ==
    \/ fs = "mkdir_raises"
    \/ \E d \in parents(path) : d \in DOMAIN files

\* write_text raises when the path is a directory, or for a reason the
\* model does not hold; the file is then as it was.
write_raises(path, ds, fs) ==
    \/ fs = "write_raises"
    \/ path \in ds

\* A plausible slip: the session keys are set before the file is written.
write_generated_fileEager(project_name, relative_path, content, fs) ==
    LET head == ToolHead(project_name, relative_path)
        validated_path == head.ret.val
        made == dirs \cup parents(validated_path)
    IN  /\ pc = "idle"
        /\ pc' = "done"
        /\ op' = "write_generated_file"
        /\ proj' = project_name
        /\ arg' = head.arg
        /\ IF head.ret.kind # "ok"
           THEN /\ ret' = head.ret
                /\ log' = head.log
                /\ UNCHANGED <<text, files, dirs, state>>
           ELSE IF mkdir_raises(validated_path, fs)
           THEN /\ ret' = [kind |-> "OSError", msg |-> "mkdir", val |-> <<>>]
                /\ log' = Append(head.log, Ev("mkdir", "-"))
                /\ state' = last_written(validated_path, project_name)
                /\ UNCHANGED <<text, files, dirs>>
           ELSE IF write_raises(validated_path, made, fs)
           THEN /\ ret' = [kind |-> "OSError", msg |-> "write_text", val |-> <<>>]
                /\ log' = head.log \o <<Ev("mkdir", "-"), Ev("write", "-")>>
                /\ dirs' = made
                /\ state' = last_written(validated_path, project_name)
                /\ UNCHANGED <<text, files>>
           ELSE /\ ret' = Ok
                /\ log' = head.log \o <<Ev("mkdir", "-"), Ev("write", "-")>>
                /\ dirs' = made
                /\ files' = (validated_path :> content) @@ files
                /\ state' = last_written(validated_path, project_name)
                /\ text' = <<"Successfully wrote", content, relative_path>>
        /\ UNCHANGED <<registry, elsewhere, cwd, todo, running, results, vres>>

\* write_generated_file: fs says how far the filesystem lets it go (the
\* mkdir raises, the write raises, or both succeed).  The returned text
\* names the length of the content and the relative path; the model keeps
\* the content itself.
write_generated_file(project_name, relative_path, content, fs) ==
    LET head == ToolHead(project_name, relative_path)
        validated_path == head.ret.val
        made == dirs \cup parents(validated_path)
    IN  /\ pc = "idle"
        /\ pc' = "done"
        /\ op' = "write_generated_file"
        /\ proj' = project_name
        /\ arg' = head.arg
        /\ IF head.ret.kind # "ok"
           THEN /\ ret' = head.ret
                /\ log' = head.log
                /\ UNCHANGED <<text, files, dirs, state>>
           ELSE IF mkdir_raises(validated_path, fs)
           THEN /\ ret' = [kind |-> "OSError", msg |-> "mkdir", val |-> <<>>]
                /\ log' = Append(head.log, Ev("mkdir", "-"))
                /\ UNCHANGED <<text, files, dirs, state>>
           ELSE IF write_raises(validated_path, made, fs)
           THEN /\ ret' = [kind |-> "OSError", msg |-> "write_text", val |-> <<>>]
                /\ log' = head.log \o <<Ev("mkdir", "-"), Ev("write", "-")>>
                /\ dirs' = made
                /\ UNCHANGED <<text, files, state>>
           ELSE /\ ret' = Ok
                /\ log' = head.log \o <<Ev("mkdir", "-"), Ev("write", "-")>>
                /\ dirs' = made
                /\ files' = (validated_path :> content) @@ files
                /\ state' = last_written(validated_path, project_name)
                /\ text' = <<"Successfully wrote", content, relative_path>>
        /\ UNCHANGED <<registry, elsewhere, cwd, todo, running, results, vres>>

\* The tools that take a project_name and no path.
ProjectTools ==
    {"analyze_target_project", "get_existing_content", "read_template",
     "read_progression_plan", "get_next_lesson_number"}

\* analyze_target_project, get_existing_content, read_template,
\* read_progression_plan and get_next_lesson_number: TargetProject(
\* project_name), then the analyzer, which looks up the root and looks
\* for its files there; found says whether there is something to read.
project_tool(t, project_name, found) ==
    /\ pc = "idle"
    /\ pc' = "done"
    /\ op' = t
    /\ proj' = project_name
    /\ IF project_name \notin TargetProject
       THEN /\ ret' = [kind |-> "ValueError",
                       msg |-> "not a valid TargetProject", val |-> <<>>]
            /\ UNCHANGED <<arg, log, text>>
       ELSE /\ ret' = Ok
            /\ arg' = get_project_path(project_name)
            /\ log' = <<Ev("get_project_path", "-"), Ev("stat", "-")>>
                      \o (IF found THEN <<Ev("read", "-")>> ELSE <<>>)
            /\ text' = <<t, IF found THEN "found" ELSE "nothing found">>
    /\ UNCHANGED <<registry, elsewhere, cwd, todo, running, results, vres,
                   files, dirs, state>>

\* The keyword parameters of validators.validate_file.
validate_file_keywords == {"project_dir"}

\* validate_generated_content: after the sandbox check it calls
\* validators.validate_file(file_path, project_dir=..., run_doctest=...),
\* a keyword validate_file does not take: the call raises TypeError before
\* validate_file runs.
validate_generated_content(project_name, relative_path) ==
    LET head == ToolHead(project_name, relative_path)
    IN  /\ pc = "idle"
        /\ op' = "validate_generated_content"
        /\ proj' = project_name
        /\ arg' = head.arg
        /\ log' = head.log
        /\ IF head.ret.kind # "ok"
           THEN /\ pc' = "done"
                /\ ret' = head.ret
                /\ UNCHANGED <<cwd, todo>>
           ELSE IF {"project_dir", "run_doctest"} \subseteq validate_file_keywords
           THEN /\ pc' = "check"
                /\ cwd' = head.root
                /\ todo' = Checks
                /\ ret' = ret
           ELSE /\ pc' = "done"
                /\ ret' = [kind |-> "TypeError",
                           msg |-> "unexpected keyword argument 'run_doctest'",
                           val |-> <<>>]
                /\ UNCHANGED <<cwd, todo>>
        /\ UNCHANGED <<registry, elsewhere, running, results, vres, text, files, dirs, state>>

\* models.PROJECT_CATEGORIES.
PROJECT_CATEGORIES ==
    [p \in TargetProject |->
        IF p \in {"learning-dsa", "learning-asyncio"} THEN "lesson_based"
        ELSE "app_based"]

(* ----------------------------- analyzers ------------------------------ *)

\* What file names are made of, in the order of their code points (the
\* two suffixes come after a "." only, so their place does not matter).
Chars == <<".", "0", "1", "2", "_", "a", "md", "py">>

DigitValue == ("0" :> 0) @@ ("1" :> 1) @@ ("2" :> 2)

\* The stems of the files a project directory may hold.
Stems ==
    {<<"1">>, <<"0", "2">>, <<"1", "0">>, <<"2", "a">>, <<"a", "1">>,
     <<"_", "_", "a">>}

\* The files a project directory may hold: Python files below app/ and
\* src/, and a file rglob("*.py") does not match.
ProjectFiles ==
    [dir : {"app", "src"}, stem : Stems, ext : {"py"}]
    \cup {[dir |-> "src", stem |-> <<"2", "2">>, ext |-> "md"]}

\* py_file.name and str(py_file.relative_to(project_path)).
Name(f) == f.stem \o <<".", f.ext>>
relative_to(f) == <<f.dir, "/">> \o Name(f)

startswith(s, prefix) ==
    /\ Len(s) >= Len(prefix)
    /\ SubSeq(s, 1, Len(prefix)) = prefix

\* s < t for two names, as str compares them.
Rank(c) == CHOOSE i \in 1..Len(Chars) : Chars[i] = c

RECURSIVE Less(_, _)
Less(s, t) ==
    IF t = <<>> THEN FALSE
    ELSE IF s = <<>> THEN TRUE
    ELSE IF Head(s) # Head(t) THEN Rank(Head(s)) < Rank(Head(t))
    ELSE Less(Tail(s), Tail(t))

\* sorted(...) of the files of one directory.
RECURSIVE sorted(_)
sorted(fs) ==
    IF fs = {} THEN <<>>
    ELSE LET first == CHOOSE f \in fs :
                         \A g \in fs \ {f} : Less(Name(f), Name(g))
         IN  <<first>> \o sorted(fs \ {first})

\* source_path.is_dir() and source_path.rglob("*.py").
is_dir(src_dir) == \E f \in tree : f.dir = src_dir
rglob(src_dir) == {f \in tree : f.dir = src_dir /\ f.ext = "py"}

\* analyzers._SOURCE_DIRS.
_SOURCE_DIRS == [lesson_based |-> <<"src">>, app_based |-> <<"app", "src">>]

Dunder(f) == startswith(Name(f), <<"_", "_">>)

\* The lists built by a loop over the source directories of a category.
RECURSIVE Chain(_)
Chain(lists) ==
    IF lists = <<>> THEN <<>> ELSE Head(lists) \o Chain(Tail(lists))

\* The source directories of a project that exist, in order.
SourceDirs(project) ==
    SelectSeq(_SOURCE_DIRS[PROJECT_CATEGORIES[project]], is_dir)

\* analyze_existing_lessons: every Python file of the source directories
\* that is not a dunder file, by directory and then by name.
LessonsOf(src_dir) ==
    LET kept == SelectSeq(sorted(rglob(src_dir)), LAMBDA f : ~Dunder(f))
    IN  [i \in 1..Len(kept) |->
            [name |-> kept[i].stem, path |-> relative_to(kept[i])]]

analyze_existing_lessons(project) ==
    LET src_dirs == SourceDirs(project)
    IN  Chain([i \in 1..Len(src_dirs) |-> LessonsOf(src_dirs[i])])
\* _LESSON_NUMBER_RE.match(name).group(1): the digits a name starts with.
RECURSIVE _LESSON_NUMBER_RE(_)
_LESSON_NUMBER_RE(stem) ==
    IF stem # <<>> /\ Head(stem) \in DOMAIN DigitValue
    THEN <<Head(stem)>> \o _LESSON_NUMBER_RE(Tail(stem))
    ELSE <<>>

\* int(digits), for a string of decimal digits.
RECURSIVE int(_)
int(digits) ==
    IF digits = <<>> THEN 0
    ELSE 10 * int(SubSeq(digits, 1, Len(digits) - 1))
         + DigitValue[digits[Len(digits)]]

max(a, b) == IF a >= b THEN a ELSE b

\* The loop of next_lesson_number over the lessons, from max_num.
RECURSIVE max_num(_, _)
max_num(lessons, sofar) ==
    IF lessons = <<>> THEN sofar
    ELSE LET match == _LESSON_NUMBER_RE(Head(lessons).name)
         IN  max_num(Tail(lessons),
                     IF match # <<>> THEN max(sofar, int(match)) ELSE sofar)

\* A plausible slip: the number after the last lesson of the listing.
next_lesson_numberOfLast(project) ==
    LET lessons == analyze_existing_lessons(project)
    IN  IF lessons = <<>> THEN 1
        ELSE max_num(<<lessons[Len(lessons)]>>, 0) + 1

next_lesson_number(project) ==
    max_num(analyze_existing_lessons(project), 0) + 1

\* The slice [:3] of extract_template_patterns.
ExampleLimit == 3

\* The example lessons of one source directory: of its first three Python
\* files, those that are not dunder files.
ExamplesOf(src_dir) ==
    LET found == sorted(rglob(src_dir))
        first == SubSeq(found, 1, IF Len(found) < ExampleLimit
                                  THEN Len(found) ELSE ExampleLimit)
        kept == SelectSeq(first, LAMBDA f : ~Dunder(f))
    IN  [i \in 1..Len(kept) |-> relative_to(kept[i])]

\* extract_template_patterns: the example_lessons of the template.
extract_template_patterns(project) ==
    LET src_dirs == SourceDirs(project)
    IN  Chain([i \in 1..Len(src_dirs) |-> ExamplesOf(src_dirs[i])])

\* A file appears in the project directory before it is analysed.
CreateFile(f) ==
    /\ answer.op = "none"
    /\ Cardinality(tree) < MaxFiles
    /\ f \notin tree
    /\ tree' = tree \cup {f}
    /\ UNCHANGED <<program, _REGISTRY, registered, answer>>

CallNextLessonNumber ==
    /\ answer.op = "none"
    /\ \E project \in TargetProject :
         answer' = [op |-> "next_lesson_number", arg |-> project,
                    kind |-> "ok", val |-> next_lesson_number(project)]
    /\ UNCHANGED <<program, tree, _REGISTRY, registered>>

CallExtractTemplatePatterns ==
    /\ answer.op = "none"
    /\ \E project \in TargetProject :
         answer' = [op |-> "extract_template_patterns", arg |-> project,
                    kind |-> "ok", val |-> extract_template_patterns(project)]
    /\ UNCHANGED <<program, tree, _REGISTRY, registered>>

NextAnalyze ==
    \/ \E f \in ProjectFiles : CreateFile(f)
    \/ CallNextLessonNumber
    \/ CallExtractTemplatePatterns

\* One call of an analyzer on a project directory of any content.
SpecAnalyze == Init /\ [][NextAnalyze]_vars

(* ------------------------------ domains ------------------------------ *)

\* The names configs are registered and looked up under, as sorted()
\* orders them.
DomainNames ==
    <<"aaa", "asyncio", "dsa", "fastapi", "litestar", "nonexistent", "zzz">>

\* The configs handed to _register after the import: new names, and a
\* name that is registered already.
Configs ==
    {DomainConfig(n, p, "concept_first") :
        n \in {"aaa", "dsa", "zzz"}, p \in {"learning-dsa", "learning-fastapi"}}

\* sorted(_REGISTRY): the keys of the dict, in order.
sorted_REGISTRY == SelectSeq(DomainNames, LAMBDA n : n \in DOMAIN _REGISTRY)

\* A plausible slip: a name that is registered keeps its first config.
_registerOnce(config) ==
    /\ Len(registered) < Len(Registered) + MaxRegisters
    /\ _REGISTRY' = _REGISTRY @@ (config.name :> config)
    /\ registered' = Append(registered, config)
    /\ answer' = [op |-> "_register", arg |-> config.name, kind |-> "ok",
                  val |-> <<>>]
    /\ UNCHANGED <<program, tree>>

_register(config) ==
    /\ Len(registered) < Len(Registered) + MaxRegisters
    /\ _REGISTRY' = (config.name :> config) @@ _REGISTRY
    /\ registered' = Append(registered, config)
    /\ answer' = [op |-> "_register", arg |-> config.name, kind |-> "ok",
                  val |-> <<>>]
    /\ UNCHANGED <<program, tree>>

get_domain(n) ==
    /\ answer' =
         IF n \notin DOMAIN _REGISTRY
         THEN [op |-> "get_domain", arg |-> n, kind |-> "KeyError",
               val |-> <<"Unknown domain", n, sorted_REGISTRY>>]
         ELSE [op |-> "get_domain", arg |-> n, kind |-> "ok",
               val |-> _REGISTRY[n]]
    /\ UNCHANGED <<program, tree, _REGISTRY, registered>>

list_domains ==
    /\ answer' = [op |-> "list_domains", arg |-> "-", kind |-> "ok",
                  val |-> sorted_REGISTRY]
    /\ UNCHANGED <<program, tree, _REGISTRY, registered>>

NextDomains ==
    \/ \E config \in Configs : _register(config)
    \/ \E n \in {DomainNames[i] : i \in 1..Len(DomainNames)} : get_domain(n)
    \/ list_domains

\* The domain registry after its import, under any calls.
SpecDomains == Init /\ [][NextDomains]_vars

(* ------------------------- the agent pipeline ------------------------- *)

\* The single-check tools.
CheckTools ==
    {"run_ruff_format", "run_ruff_check", "run_mypy_check",
     "run_pytest_doctest"}

\* What a tool call hands the agent: the PASS or FAIL string of a check
\* tool, the string of another tool ("ok"), or an exception ("raise").
\* validate_generated_content returns a string only when its call of
\* validate_file is one validate_file accepts.
Outcomes(tool) ==
    IF tool \in CheckTools THEN {"PASS", "FAIL", "raise"}
    ELSE IF tool = "validate_generated_content"
    THEN IF {"project_dir", "run_doctest"} \subseteq validate_file_keywords
         THEN {"PASS", "FAIL", "raise"}
         ELSE {"raise"}
    ELSE {"ok", "raise"}

\* SequentialAgent starts its i-th sub-agent.
StartAgent(i) ==
    /\ agent' = i
    /\ runs' = [runs EXCEPT ![sub_agents[i]] = @ + 1]
    /\ calls' = <<>>

\* root_agent is run: its first sub-agent starts.
RunPipeline ==
    /\ phase = "idle"
    /\ phase' = "running"
    /\ StartAgent(1)
    /\ UNCHANGED <<beside, session>>

\* The agent that runs has the model call one of its tools.  A tool that
\* raises raises into google.adk, where this model ends.
CallTool(tool, out) ==
    /\ phase = "running"
    /\ Len(calls) < MaxToolCalls
    /\ tool \in tools[sub_agents[agent]]
    /\ out \in Outcomes(tool)
    /\ calls' = Append(calls, [tool |-> tool, out |-> out])
    /\ phase' = IF out = "raise" THEN "raised" ELSE "running"
    /\ UNCHANGED <<beside, agent, runs, session>>

\* The agent that runs gives its final response, which is saved under its
\* output_key; SequentialAgent goes on to the next sub-agent, if any.
AgentResponds ==
    /\ phase = "running"
    /\ session' = IF output_key[sub_agents[agent]] = "-" THEN session
                  ELSE session \cup {output_key[sub_agents[agent]]}
    /\ IF agent < Len(sub_agents)
       THEN /\ StartAgent(agent + 1)
            /\ phase' = phase
       ELSE /\ phase' = "finished"
            /\ UNCHANGED <<agent, runs, calls>>
    /\ UNCHANGED beside

\* Every tool some agent has.
AllTools == UNION {tools[a] : a \in DOMAIN tools}

NextAgent ==
    \/ RunPipeline
    \/ \E tool \in AllTools : \E out \in Outcomes(tool) : CallTool(tool, out)
    \/ AgentResponds

\* One run of root_agent.
SpecAgent == Init /\ [][NextAgent]_vars

(* --------------------------- the whole program ------------------------ *)

\* The calls, each with every argument of the bounds.
CallValidateFile ==
    /\ pc = "idle"
    /\ \E p \in TargetProject, rel \in RelPathsUpTo(MaxFileRelLen),
          given \in BOOLEAN :
            validate_file(Join(PROJECT_PATHS[p], rel),
                          IF given THEN Some(PROJECT_PATHS[p]) ELSE None)

CallRunCheckTool ==
    /\ pc = "idle"
    /\ \E c \in DOMAIN ToolOf, n \in ProjectNames,
          rel \in RelPathsUpTo(MaxRelLen) :
            run_check_tool(c, n, rel)

CallReadSourceReference ==
    /\ pc = "idle"
    /\ \E n \in ProjectNames, rel \in RelPathsUpTo(MaxRelLen), e \in BOOLEAN :
            read_source_reference(n, rel, e)

CallWriteGeneratedFile ==
    /\ pc = "idle"
    /\ \E n \in ProjectNames, rel \in RelPathsUpTo(MaxRelLen), c \in Contents,
          fs \in {"ok", "mkdir_raises", "write_raises"} :
            write_generated_file(n, rel, c, fs)

CallValidateGeneratedContent ==
    /\ pc = "idle"
    /\ \E n \in ProjectNames, rel \in RelPathsUpTo(MaxRelLen) :
            validate_generated_content(n, rel)

CallProjectTool ==
    /\ pc = "idle"
    /\ \E t \in ProjectTools, n \in ProjectNames, found \in BOOLEAN :
            project_tool(t, n, found)

Next ==
    \/ CallValidateFile
    \/ SpawnCheck
    \/ \E o \in StartFailures : FailToStart(o)
    \/ \E o \in Endings : FinishCheck(o)
    \/ CallRunCheckTool
    \/ CallReadSourceReference
    \/ CallWriteGeneratedFile
    \/ CallValidateGeneratedContent
    \/ CallProjectTool

\* One call of an operation of the program, from module load to its end.
Spec == Init /\ [][Next]_vars

\* A session of write_generated_file calls: the files, the directories and
\* the session state outlive each call.
CallWrite ==
    /\ pc = "idle"
    /\ \E n \in ProjectNames, rel \in WritePaths, c \in Contents,
          fs \in {"ok", "mkdir_raises", "write_raises"} :
            write_generated_file(n, rel, c, fs)

\* The call has returned or raised and the session goes on to its next call.
NextCall ==
    /\ pc = "done"
    /\ ncalls + 1 < MaxWrites
    /\ ncalls' = ncalls + 1
    /\ pc' = "idle"
    /\ op' = "none"
    /\ proj' = "-"
    /\ arg' = <<>>
    /\ log' = <<>>
    /\ ret' = NoRet
    /\ text' = NoText
    /\ UNCHANGED <<registry, pipeline, library, cwd, todo, running, results,
                   vres, files, dirs, state>>

NextWrite ==
    \/ CallWrite
    \/ NextCall

SpecWrite == Init /\ [][NextWrite]_vars

(* ------------------------- what the claims use ------------------------ *)

\* p is r or lies below r, component by component.
Under(p, r) ==
    /\ Len(r) <= Len(p)
    /\ \A i \in 1..Len(r) : p[i] = r[i]

\* p names no "." or "..", and no symbolic link on the way.
Canonical(p) ==
    /\ \A i \in 1..Len(p) : p[i] \notin {".", ".."}
    /\ \A k \in 1..Len(p) : SubSeq(p, 1, k) \notin DOMAIN Symlinks

\* The file p names lies in the directory a registered root names.
InsideSomeRoot(p) ==
    \E r \in ALLOWED_ROOTS : Under(resolve(p), resolve(r))

HasDotDot(p) == \E i \in 1..Len(p) : p[i] = ".."

\* p is written below r with no "." or ".." and through no symbolic link
\* below r.
PlainBelow(p, r) ==
    /\ Under(p, r)
    /\ \A i \in 1..Len(p) : p[i] \notin {".", ".."}
    /\ \A k \in (Len(r) + 1)..Len(p) : SubSeq(p, 1, k) \notin DOMAIN Symlinks

Returned == op = "validate_path" /\ ret.kind = "ok"

(* C1: whenever validate_path returns a path, that path is canonical (no   *)
(* ".", no "..", no symbolic link on the way) and is one of ALLOWED_ROOTS  *)
(* or lies below one; nothing outside every allowed root is returned.      *)
C1_SandboxSafety ==
    Returned =>
        /\ ret.val = resolve(arg)
        /\ Canonical(ret.val)
        /\ \E r \in ALLOWED_ROOTS : Under(ret.val, r)
        /\ InsideSomeRoot(arg)

C1_Witness ==
    /\ Returned
    /\ HasDotDot(arg)
    /\ \E k \in 1..Len(arg) : SubSeq(arg, 1, k) \in DOMAIN Symlinks

(* C2: validate_path raises (ValueError, the spec's PathTraversalError)    *)
(* for every path that names nothing inside a registered root, also when   *)
(* the path as written starts with an allowed root.                        *)
C2_OutsideRejected ==
    (op = "validate_path" /\ ~InsideSomeRoot(arg)) => ret.kind = "ValueError"

C2_Witness ==
    /\ op = "validate_path"
    /\ ~InsideSomeRoot(arg)
    /\ \E r \in ALLOWED_ROOTS : Under(arg, r)
    /\ ret.kind = "ValueError"

(* C3: for every registered root and every path written below it with no   *)
(* traversal, validate_path returns a path below that same root.           *)
C3_InsideAccepted ==
    op = "validate_path" =>
        \A r \in ALLOWED_ROOTS :
            PlainBelow(arg, r) => (ret.kind = "ok" /\ Under(ret.val, r))

(* C4: every path with ".." segments that resolves back inside an allowed  *)
(* root is accepted, and the returned path has no ".." segment.            *)
C4_DotDotInside ==
    (op = "validate_path" /\ HasDotDot(arg) /\ InsideSomeRoot(arg)) =>
        (ret.kind = "ok" /\ ~HasDotDot(ret.val))

(* C5: a path equal to an allowed root is accepted and returned.           *)
C5_RootAccepted ==
    (op = "validate_path" /\ arg \in ALLOWED_ROOTS) =>
        (ret.kind = "ok" /\ ret.val = arg)

(* -------------------- claims on the validation runner ----------------- *)

\* The operations that take a path into the sandbox.
PathTaking ==
    {"validate_file", "read_source_reference", "write_generated_file",
     "validate_generated_content", "run_ruff_format", "run_ruff_check",
     "run_mypy_check", "run_pytest_doctest"}

\* The checks _run_tool was called for in this call, in order.
RECURSIVE Invoked(_)
Invoked(l) ==
    IF l = <<>> THEN <<>>
    ELSE IF Head(l).ev = "run_tool" THEN <<Head(l).check>> \o Invoked(Tail(l))
    ELSE Invoked(Tail(l))

\* validate_file was called on a path the sandbox accepts and has ended.
FileCallEnded ==
    /\ op = "validate_file"
    /\ pc = "done"
    /\ ret.kind # "ValueError"

(* C6: every path-taking operation calls validate_path before it touches   *)
(* a file, a directory or a process; when the path names nothing inside an *)
(* allowed root the call raises ValueError and has read and written no     *)
(* file, created no directory and started no subprocess.                   *)
C6_SandboxFirst ==
    op \in PathTaking =>
        /\ \A i \in 1..Len(log) :
               log[i].ev \in Effects =>
                   \E j \in 1..(i - 1) : log[j].ev = "validate_path"
        /\ ~InsideSomeRoot(arg) =>
               /\ pc = "done"
               /\ ret.kind = "ValueError"
               /\ \A i \in 1..Len(log) : log[i].ev \notin Effects
               /\ running = {}
               /\ files = <<>>
               /\ state = NoState

C6_Witness ==
    /\ op = "write_generated_file"
    /\ proj = "learning-dsa"
    /\ Under(arg, PROJECT_PATHS["learning-dsa"])
    /\ ~InsideSomeRoot(arg)
    /\ ret.kind = "ValueError"
    /\ files = <<>>

(* C7: the passed flag of the ValidationResult validate_file returns is    *)
(* the conjunction of the four checks' passed flags.                       *)
C7_PassedIsAnd ==
    (op = "validate_file" /\ pc = "done" /\ ret.kind = "ok") =>
        /\ vres.set
        /\ Len(results) = 4
        /\ vres.passed =
               (results[1].ok /\ results[2].ok /\ results[3].ok /\ results[4].ok)

C7_Witness ==
    /\ op = "validate_file"
    /\ pc = "done"
    /\ ret.kind = "ok"
    /\ results[1].ok /\ results[2].ok /\ ~results[3].ok /\ results[4].ok
    /\ ~vres.passed

(* C8: every validate_file call on a sandboxed path runs all four checks,  *)
(* whatever way an earlier check ended.                                    *)
C8_AllChecksRun ==
    FileCallEnded => Invoked(log) = <<"ruff_format", "ruff_lint", "mypy", "pytest">>

\* The order the spec gives the checks: format-check, lint, type-check, test.
FixedOrder == <<"ruff_format", "ruff_lint", "mypy", "pytest">>

\* The section label of each check in the report.
LabelOf ==
    [ruff_format |-> "RUFF FORMAT", ruff_lint |-> "RUFF LINT", mypy |-> "MYPY",
     pytest |-> "PYTEST"]

(* C9: the checks of one validate_file call are started in the order       *)
(* format-check, lint, type-check, test, at most one check subprocess is   *)
(* alive at any time, a check is started only when every earlier one has   *)
(* finished, and the ValidationResult and the report's sections list the   *)
(* checks' outputs in that same order.                                     *)
C9_FixedOrder ==
    op = "validate_file" =>
        /\ Invoked(log) = SubSeq(FixedOrder, 1, Len(Invoked(log)))
        /\ Cardinality(running) <= 1
        /\ \A i \in 1..Len(results) : results[i].check = FixedOrder[i]
        /\ \A c \in running :
               /\ Len(results) < 4
               /\ c = FixedOrder[Len(results) + 1]
        /\ (pc = "done" /\ ret.kind = "ok") =>
               /\ <<vres.ruff_format, vres.ruff_lint, vres.mypy, vres.pytest>>
                      = [i \in 1..4 |-> results[i].out]
               /\ sections(vres)
                      = [i \in 1..4 |->
                            <<LabelOf[FixedOrder[i]], results[i].out>>]

C9_Witness ==
    /\ op = "validate_file"
    /\ pc = "wait"
    /\ running = {"pytest"}
    /\ Len(results) = 3
    /\ results[2].how = "timeout"
    /\ results[3].out = "msg"

(* C10: _run_tool never raises, so validate_file on a sandboxed path       *)
(* always returns a ValidationResult.                                      *)
C10_NeverRaises ==
    FileCallEnded => (ret.kind = "ok" /\ vres.set)

\* The four states a check ends in, by the way subprocess.run ended.
Passed(r) == r.how = "exit0"
Failed(r) == r.how = "nonzero"
TimedOutState(r) == r.how = "timeout"
NotFound(r) == r.how \in {"no_exe", "no_cwd"}

\* An operation that runs checks.
RunsChecks ==
    op \in {"validate_file", "run_ruff_format", "run_ruff_check",
            "run_mypy_check", "run_pytest_doctest"}

(* C11: every check ends in exactly one of Passed, Failed, TimedOut and    *)
(* NotFound, as a (passed, output) pair: passed is true exactly for exit   *)
(* code 0, the output is the captured stdout + stderr (stripped) for       *)
(* Passed and Failed, names the timeout for TimedOut and says "not found"  *)
(* for NotFound.                                                           *)
C11_CheckStateMachine ==
    RunsChecks =>
        /\ (pc \in {"check", "done"}) => Len(results) = Len(Invoked(log))
        /\ \A i \in 1..Len(results) :
               LET r == results[i]
               IN  /\ Cardinality({s \in 1..4 :
                          <<Passed(r), Failed(r), TimedOutState(r),
                            NotFound(r)>>[s]}) = 1
                   /\ r.ok <=> Passed(r)
                   /\ (Passed(r) \/ Failed(r)) => r.out = strip(r.raw)
                   /\ TimedOutState(r) => r.out = "Command timed out"
                   /\ NotFound(r) => r.out = "Command not found"

\* The endings of subprocess.run that _run_tool turns into a pair.
Handled == {o \in Endings \cup StartFailures : o.exc \in Caught}

\* The output field of check c in a ValidationResult v.
Field(v, c) ==
    IF c = "ruff_format" THEN v.ruff_format
    ELSE IF c = "ruff_lint" THEN v.ruff_lint
    ELSE IF c = "mypy" THEN v.mypy
    ELSE v.pytest

(* C12: each output field of the ValidationResult holds the output of its  *)
(* own check and of no other: had the mypy check alone ended in any other  *)
(* way, the mypy field would hold that ending's text and the ruff_format,  *)
(* ruff_lint and pytest fields would be what they are.                     *)
C12_OwnOutput ==
    (op = "validate_file" /\ pc = "done" /\ ret.kind = "ok") =>
        /\ \A i \in 1..4 :
               Field(vres, results[i].check) =
                   run_tool(results[i].check,
                            CHOOSE o \in Handled :
                                o.why = results[i].how /\ o.raw = results[i].raw).out
        /\ \A o \in Handled :
               LET other == ValidationResult(
                                [results EXCEPT ![3] = run_tool("mypy", o)])
               IN  /\ other.mypy = run_tool("mypy", o).out
                   /\ \A c \in {"ruff_format", "ruff_lint", "pytest"} :
                          Field(other, c) = Field(vres, c)

C12_Witness ==
    /\ op = "validate_file"
    /\ pc = "done"
    /\ ret.kind = "ok"
    /\ results[1].ok /\ results[2].ok /\ ~results[3].ok /\ results[4].ok
    /\ results[3].how = "nonzero"
    /\ vres.mypy = "msg"
    /\ vres.ruff_format = "msg"
    /\ vres.ruff_lint = ""
    /\ vres.pytest = ""

(* ---------------------- claims on the repair cycle -------------------- *)

\* The validator runs or has run last.
InValidator == agent > 0 /\ sub_agents[agent] = "validator"

\* The tools the validator validates with, and the tool it fixes with.
ValidationTools == CheckTools \cup {"validate_generated_content"}
IsValidation(i) == calls[i].tool \in ValidationTools
IsFix(i) == calls[i].tool = "write_generated_file"

\* The fix calls among the first n calls, and the validations among them:
\* a validation is a run of validation calls with no fix in between.
FixesUpTo(n) == Cardinality({i \in 1..n : IsFix(i)})
ValidationsUpTo(n) ==
    Cardinality({i \in 1..n : IsValidation(i) /\ (i = 1 \/ IsFix(i - 1))})

\* No validation call has passed.
NeverPassing == \A i \in 1..Len(calls) : calls[i].out # "PASS"

\* The calls i-3..i are the four check tools, each answering PASS.
PassingValidationAt(i) ==
    /\ i >= 4
    /\ {calls[j].tool : j \in (i - 3)..i} = CheckTools
    /\ \A j \in (i - 3)..i : calls[j].out = "PASS"

(* C13: when no validation ever passes, the validation stage validates at  *)
(* most 4 times (once, and once after each of at most 3 repairs) and fixes *)
(* at most 3 times.                                                        *)
C13_RepairCeiling ==
    (InValidator /\ NeverPassing) =>
        /\ FixesUpTo(Len(calls)) <= MaxRepairCycles
        /\ ValidationsUpTo(Len(calls)) <= MaxRepairCycles + 1

(* C14: the repair cycle stops at the first passing validation: no fix is  *)
(* called after it, and when validation k is the first to pass, k - 1      *)
(* fixes have been called.                                                 *)
C14_StopOnPass ==
    InValidator =>
        \A i \in 1..Len(calls) :
            (PassingValidationAt(i) /\ \A j \in 1..(i - 1) : ~PassingValidationAt(j)) =>
                /\ \A j \in (i + 1)..Len(calls) : ~IsFix(j)
                /\ FixesUpTo(i) = ValidationsUpTo(i) - 1

(* C16: the validation stage is a loop of at most 3 runs of the validator, *)
(* its only sub-agent: the validator runs at most 3 times in a pipeline    *)
(* run, and the stage ends after fewer runs only when the validator has    *)
(* called exit_loop.                                                       *)
C16_ValidationLoop ==
    /\ runs["validator"] <= 3
    /\ phase = "finished" =>
           \/ runs["validator"] = 3
           \/ \E i \in 1..Len(calls) : calls[i].tool = "exit_loop"

(* ------------------------ claims on the registry ---------------------- *)

\* The tools that take a project_name.
ProjectTaking == (PathTaking \ {"validate_file"}) \cup ProjectTools

(* C17: a tool called with a project_name that is no registered project    *)
(* raises (ValueError, the spec's UnknownProjectError) before it has       *)
(* looked up a root, checked a path, touched the filesystem or started a   *)
(* subprocess; a registered name never raises that error.                  *)
C17_UnknownProject ==
    op \in ProjectTaking =>
        /\ proj \notin TargetProject =>
               /\ pc = "done"
               /\ ret.kind = "ValueError"
               /\ ret.msg = "not a valid TargetProject"
               /\ log = <<>>
               /\ running = {}
               /\ results = <<>>
               /\ files = <<>>
               /\ state = NoState
        /\ proj \in TargetProject => ret.msg # "not a valid TargetProject"

C17_Witness ==
    /\ op = "run_mypy_check"
    /\ proj = "learning-rust"
    /\ ret.kind = "ValueError"
    /\ log = <<>>

\* Path.is_absolute().
is_absolute(p) == p = <<>> \/ Head(p) # "."

\* The registry is what the spec says it is.
RegistryOk ==
    /\ DOMAIN PROJECT_PATHS = TargetProject
    /\ \A p \in TargetProject : is_absolute(PROJECT_PATHS[p])
    /\ ALLOWED_ROOTS # {}
    /\ ALLOWED_ROOTS = {PROJECT_PATHS[p] : p \in TargetProject}

(* C18: in every state each registered project maps to one absolute root   *)
(* and ALLOWED_ROOTS is the non-empty set of those roots, and no step of   *)
(* the program changes the mapping or the set.                             *)
C18_RegistryInvariant ==
    [][RegistryOk /\ RegistryOk' /\ UNCHANGED registry]_vars

(* ------------------- claims on validate_generated_content ------------- *)

\* validate_generated_content was called on a sandboxed path of a
\* registered project and has ended.
ContentCallEnded ==
    /\ op = "validate_generated_content"
    /\ pc = "done"
    /\ ret.kind # "ValueError"

(* C19: validate_generated_content on a sandboxed path returns a PASS or   *)
(* FAIL string, having run all four checks for a lesson-based project and  *)
(* the first three, with an empty pytest field, for an app-based one.      *)
C19_DoctestByCategory ==
    ContentCallEnded =>
        /\ ret.kind = "ok"
        /\ text # NoText
        /\ text[1] \in {"PASS", "FAIL"}
        /\ Invoked(log) =
               IF PROJECT_CATEGORIES[proj] = "lesson_based" THEN FixedOrder
               ELSE SubSeq(FixedOrder, 1, 3)
        /\ PROJECT_CATEGORIES[proj] = "app_based" => vres.pytest = ""

(* C20: validate_generated_content reports PASS or FAIL, and a FAIL report *)
(* lists exactly the checks that failed: every failed check has a section  *)
(* and no passed check has one.                                            *)
C20_FailuresOnly ==
    /\ ContentCallEnded => (ret.kind = "ok" /\ text # NoText)
    /\ (op = "validate_file" /\ pc = "done" /\ ret.kind = "ok") =>
           LET rep == report(vres)
           IN  /\ rep.status = IF \A i \in 1..4 : results[i].ok THEN "PASS"
                               ELSE "FAIL"
               /\ rep.status = "FAIL" =>
                      {rep.errors[k][1] : k \in 1..Len(rep.errors)}
                          = {LabelOf[results[i].check] :
                                 i \in {j \in 1..4 : ~results[j].ok}}

\* The labels of the sections of a returned string, in order.
LabelsIn(t) == [k \in 1..(Len(t) - 1) |-> t[k + 1][1]]

\* The labels of the checks whose output is not empty, in the fixed order.
RECURSIVE NonEmptyLabels(_, _)
NonEmptyLabels(v, cs) ==
    IF cs = <<>> THEN <<>>
    ELSE (IF Field(v, Head(cs)) # "" THEN <<LabelOf[Head(cs)]>> ELSE <<>>)
         \o NonEmptyLabels(v, Tail(cs))

\* The string t is what the claim says of the ValidationResult v.
AsClaimed(t, v) ==
    IF v.passed THEN t[1] = "PASS"
    ELSE /\ t[1] = "FAIL"
         /\ IF NonEmptyLabels(v, FixedOrder) = <<>> THEN t[2] = "str(result)"
            ELSE LabelsIn(t) = NonEmptyLabels(v, FixedOrder)

(* C21: validate_generated_content on a sandboxed path returns a string:   *)
(* it starts with PASS when the aggregate result is passed, and otherwise  *)
(* with FAIL, followed by the sections of exactly the checks whose output  *)
(* is not empty, in the order RUFF FORMAT, RUFF LINT, MYPY, PYTEST.        *)
C21_ReportSections ==
    ContentCallEnded =>
        /\ ret.kind = "ok"
        /\ vres.set
        /\ AsClaimed(text, vres)

\* A call of write_generated_file has ended / has ended well.
WriteEnded == pc = "done" /\ op = "write_generated_file"
WriteDone == WriteEnded /\ ret.kind = "ok"

\* The path a string of the form str(path) names.
PathOf(s) ==
    IF s = <<"/">> THEN <<>> ELSE [i \in 1..(Len(s) \div 2) |-> s[2 * i]]

\* C22: when write_generated_file has returned, the file at the resolved
\* path of project root + relative path holds exactly the content handed
\* in, every ancestor directory of that path exists, and the session state
\* holds the string of that path and the project name of this call,
\* whatever earlier calls of the session wrote.
C22_WriteContract ==
    WriteDone =>
        LET validated_path == resolve(Join(get_project_path(proj), text[3]))
        IN  /\ validated_path \in DOMAIN files
            /\ files[validated_path] = text[2]
            /\ parents(validated_path) \subseteq dirs
            /\ state.last_written_file = str(validated_path)
            /\ state.last_written_project = proj

\* A second write of the session has returned, to another file than the
\* first, with directories made on the way.
C22_Witness ==
    /\ WriteDone
    /\ ncalls = 1
    /\ Cardinality(DOMAIN files) = 2
    /\ dirs # InitDirs

\* C28: the file named by last_written_file lies under the root of the
\* project named by last_written_project, and a call that has written did
\* so under the root of the project it was called for.
C28_WriteStaysInProject ==
    /\ state # NoState =>
         Under(PathOf(state.last_written_file),
               resolve(get_project_path(state.last_written_project)))
    /\ WriteDone =>
         Under(resolve(arg), resolve(get_project_path(proj)))

\* Session state changes only in a call of write_generated_file that
\* returns, and then both keys are set and the file they name is there.
StateStep ==
    state' # state =>
        /\ pc = "idle"
        /\ WriteDone'
        /\ state'.last_written_file # NoState.last_written_file
        /\ state'.last_written_project # NoState.last_written_project
        /\ PathOf(state'.last_written_file) \in DOMAIN files'

\* C29: a call of write_generated_file that raises (unknown project,
\* sandbox rejection, failing mkdir, failing write) leaves the session
\* state as it was; the two keys change only together, in a call that has
\* written its file.
C29_StateOnlyAfterWrite ==
    [][/\ (WriteEnded' /\ ret'.kind # "ok") => state' = state
       /\ StateStep]_vars

\* A call has raised in mkdir or write_text after an earlier call of the
\* session had set the keys.
C29_Witness ==
    /\ WriteEnded
    /\ ret.kind = "OSError"
    /\ ncalls = 1
    /\ state # NoState

\* The stages of the pipeline, in order.
Stages ==
    <<"template_analyzer", "content_planner", "code_generator",
      "validation_loop">>

\* The sub-agents before the i-th have run once and those after it have not
\* started.
InOrder(i) ==
    /\ \A j \in 1..Len(sub_agents) :
         runs[sub_agents[j]] = IF j <= i THEN 1 ELSE 0

\* C23: root_agent runs the four stages template_analyzer, content_planner,
\* code_generator, validation_loop: a stage runs only when those before it
\* have run once and finished, no stage runs twice, and a run that
\* finishes has run all four.
C23_StageOrder ==
    /\ Len(sub_agents) = Len(Stages)
    /\ phase = "idle" => agent = 0 /\ InOrder(0)
    /\ phase # "idle" =>
         /\ sub_agents[agent] = Stages[agent]
         /\ InOrder(agent)
    /\ phase = "finished" => agent = Len(Stages)

\* The keys of the stages that have finished.
Written ==
    {output_key[sub_agents[j]] :
        j \in 1..(IF phase = "finished" THEN agent ELSE agent - 1)} \ {"-"}

\* C24: what the instruction of the running agent reads as {key} is the
\* output_key of a sub-agent that comes strictly earlier and has been saved
\* to the session; the validator has no output_key, so the session holds
\* the keys of the finished stages and nothing else.
C24_DataFlow ==
    /\ \A i \in 1..Len(sub_agents) :
         placeholders[sub_agents[i]] \subseteq
            {output_key[sub_agents[j]] : j \in 1..(i - 1)}
    /\ output_key["validator"] = "-"
    /\ phase # "idle" =>
         /\ placeholders[sub_agents[agent]] \subseteq session
         /\ session = Written

\* The validator runs, and the summary it reads has been saved.
C24_Witness ==
    /\ phase = "running"
    /\ sub_agents[agent] = "validator"
    /\ "generated_code_summary" \in session
    /\ calls # <<>>

\* C30: a check result that says "Command not found" comes from a start
\* that failed because the executable is missing, and from nothing else
\* (not, say, from a working directory that does not exist).
C30_NotFoundMeansNoExecutable ==
    \A i \in 1..Len(results) :
        results[i].out = "Command not found" => results[i].how = "no_exe"

\* The numbers the lesson files of a project start with: the Python files
\* of its source directories that are not dunder files.
LessonNumbers(project) ==
    LET src_dirs == _SOURCE_DIRS[PROJECT_CATEGORIES[project]]
        lesson_files ==
            {f \in tree : /\ \E i \in 1..Len(src_dirs) : f.dir = src_dirs[i]
                          /\ f.ext = "py"
                          /\ ~Dunder(f)}
    IN  {int(_LESSON_NUMBER_RE(f.stem)) :
            f \in {g \in lesson_files : g.stem[1] \in DOMAIN DigitValue}}

\* C25: next_lesson_number returns 1 when no lesson file of the project
\* starts with digits, and otherwise one more than the greatest number a
\* lesson file starts with, so more than the number of every such file.
C25_NextLessonNumber ==
    answer.op = "next_lesson_number" =>
        LET numbers == LessonNumbers(answer.arg)
        IN  /\ numbers = {} => answer.val = 1
            /\ numbers # {} =>
                 /\ answer.val - 1 \in numbers
                 /\ \A n \in numbers : n < answer.val

\* Several numbered lessons, the greatest of them not the last by name.
C25_Witness ==
    /\ answer.op = "next_lesson_number"
    /\ Cardinality(LessonNumbers(answer.arg)) >= 3
    /\ answer.val = 11

\* C27: extract_template_patterns returns at most three example lessons,
\* and none of them is a file whose name starts with "__".
C27_ExampleLessons ==
    answer.op = "extract_template_patterns" =>
        /\ Len(answer.val) <= 3
        /\ \A i \in 1..Len(answer.val) :
             ~startswith(SubSeq(answer.val[i], 3, Len(answer.val[i])),
                         <<"_", "_">>)

\* The places of the _register calls made under a name.
RegisteredAs(n) == {i \in 1..Len(registered) : registered[i].name = n}

\* What the last call of get_domain or list_domains has answered, held
\* against the _register calls made so far.
DomainAnswers ==
    /\ answer.op = "get_domain" =>
         LET made == RegisteredAs(answer.arg)
         IN  /\ answer.kind = "KeyError" <=> made = {}
             /\ answer.kind = "KeyError" => answer.val[1] = "Unknown domain"
             /\ made # {} =>
                  /\ answer.kind = "ok"
                  /\ answer.val =
                       registered[CHOOSE i \in made : \A j \in made : j <= i]
    /\ answer.op = "list_domains" =>
         /\ {answer.val[i] : i \in 1..Len(answer.val)} =
               {registered[i].name : i \in 1..Len(registered)}
         /\ \A i, j \in 1..Len(answer.val) :
               i < j => \E k, l \in 1..Len(DomainNames) :
                           /\ k < l
                           /\ DomainNames[k] = answer.val[i]
                           /\ DomainNames[l] = answer.val[j]

\* C26: after any _register calls, get_domain(name) returns the config
\* registered last under name, and raises KeyError("Unknown domain ...")
\* exactly when none was; list_domains returns each registered name once,
\* in sorted order; and neither changes the registry.
C26_DomainRegistry ==
    [][/\ DomainAnswers'
       /\ answer'.op \in {"get_domain", "list_domains"} =>
            _REGISTRY' = _REGISTRY]_vars

\* dsa, registered again after the import, is looked up and the later
\* config returned.
C26_Witness ==
    /\ answer.op = "get_domain"
    /\ answer.arg = "dsa"
    /\ answer.kind = "ok"
    /\ answer.val # Registered[1]
    /\ Cardinality(RegisteredAs("dsa")) = 3

====
